---- MODULE Spec2Model ----
(***************************************************************************)
(* Conway's Life (md81544/life, src/main.rs): the Board data model, its     *)
(* bounds-checked accessors, clear / randomise, count_neighbours and        *)
(* next_generation.                                                         *)
(*                                                                          *)
(* A Board is a record [rows, cols, data, colours]; the two Vecs are        *)
(* functions over the linear offsets 0 .. len-1.  A function of the code    *)
(* that can panic returns a record whose err field names the panic.         *)
(***************************************************************************)
EXTENDS Integers, FiniteSets, Sequences, TLC

\* ------------------------------------------------------------------ bounds
\* Boards of every shape cols x rows with 1 <= cols*rows <= MaxCells.
MaxCells == 6
\* The same for the boards on which one generation is computed (GenInit).
GenCells == 9
\* randomise(count) is called with count in 0 .. MaxCount.
MaxCount == 2

\* --------------------------------------------------------- program constants
ColourLo == 128
ColourHi == 255

\* ------------------------------------------------------------ panic kinds
NoErr == "none"
OutOfBounds == "Out of bounds"
IndexErr == "index out of range"
ArithErr == "arithmetic overflow"

\* -------------------------------------------------------------- the rng
\* rand::thread_rng() is an arbitrary stream.  Where a range is small the
\* model draws every value of it; Board::new draws cols*rows values of
\* 128..=255, and there the model takes the stream from RngSeeds: two
\* streams that give neighbouring cells different values and reach both
\* ends of the range.
RngSeeds == {0, 1}

gen_range(seed, k, lo, hi) ==
    IF seed = 0 THEN lo + ((k * 53) % (hi - lo + 1))
                ELSE hi - ((k * 53) % (hi - lo + 1))

\* --------------------------------------------------------------- Board
Offsets(n) == 0 .. (n - 1)

\* Board::new without the loop over colours: they stay at vec![0; ..].
new_unseeded(col, row, seed) ==
    [rows    |-> row,
     cols    |-> col,
     data    |-> [i \in Offsets(col * row) |-> FALSE],
     colours |-> [i \in Offsets(col * row) |-> 0]]

\* Board::new with `col + row` for `col * row` in both vec! sizes.
new_sum_sized(col, row, seed) ==
    [rows    |-> row,
     cols    |-> col,
     data    |-> [i \in Offsets(col + row) |-> FALSE],
     colours |-> [i \in Offsets(col + row) |->
                      gen_range(seed, i, ColourLo, ColourHi)]]

\* Board::new with the cells drawn from the rng as well.
new_random_cells(col, row, seed) ==
    [rows    |-> row,
     cols    |-> col,
     data    |-> [i \in Offsets(col * row) |-> gen_range(seed, i, 0, 1) = 1],
     colours |-> [i \in Offsets(col * row) |->
                      gen_range(seed, i, ColourLo, ColourHi)]]

new(col, row, seed) ==
    [rows    |-> row,
     cols    |-> col,
     data    |-> [i \in Offsets(col * row) |-> FALSE],
     colours |-> [i \in Offsets(col * row) |->
                      gen_range(seed, i, ColourLo, ColourHi)]]

\* get with `>` for `>=` in the bounds test.
get_off_by_one(b, col, row) ==
    IF row > b.rows \/ col > b.cols
    THEN [err |-> OutOfBounds, val |-> FALSE]
    ELSE LET offset == row * b.cols + col
         IN  IF offset \in DOMAIN b.data
             THEN [err |-> NoErr, val |-> b.data[offset]]
             ELSE [err |-> IndexErr, val |-> FALSE]

get(b, col, row) ==
    IF row >= b.rows \/ col >= b.cols
    THEN [err |-> OutOfBounds, val |-> FALSE]
    ELSE LET offset == row * b.cols + col
         IN  IF offset \in DOMAIN b.data
             THEN [err |-> NoErr, val |-> b.data[offset]]
             ELSE [err |-> IndexErr, val |-> FALSE]

\* set with the offset of a column-major grid.
set_transposed(b, col, row, value) ==
    IF row >= b.rows \/ col >= b.cols
    THEN [err |-> OutOfBounds, board |-> b]
    ELSE LET offset == col * b.rows + row
         IN  IF offset \in DOMAIN b.data
             THEN [err |-> NoErr, board |-> [b EXCEPT !.data[offset] = value]]
             ELSE [err |-> IndexErr, board |-> b]

set(b, col, row, value) ==
    IF row >= b.rows \/ col >= b.cols
    THEN [err |-> OutOfBounds, board |-> b]
    ELSE LET offset == row * b.cols + col
         IN  IF offset \in DOMAIN b.data
             THEN [err |-> NoErr, board |-> [b EXCEPT !.data[offset] = value]]
             ELSE [err |-> IndexErr, board |-> b]

\* get_colour with the offset of a column-major grid.
get_colour_transposed(b, col, row) ==
    IF row >= b.rows \/ col >= b.cols
    THEN [err |-> OutOfBounds, val |-> 0]
    ELSE LET offset == col * b.rows + row
         IN  IF offset \in DOMAIN b.colours
             THEN [err |-> NoErr, val |-> b.colours[offset]]
             ELSE [err |-> IndexErr, val |-> 0]

get_colour(b, col, row) ==
    IF row >= b.rows \/ col >= b.cols
    THEN [err |-> OutOfBounds, val |-> 0]
    ELSE LET offset == row * b.cols + col
         IN  IF offset \in DOMAIN b.colours
             THEN [err |-> NoErr, val |-> b.colours[offset]]
             ELSE [err |-> IndexErr, val |-> 0]

set_colour(b, col, row, value) ==
    IF row >= b.rows \/ col >= b.cols
    THEN [err |-> OutOfBounds, board |-> b]
    ELSE LET offset == row * b.cols + col
         IN  IF offset \in DOMAIN b.colours
             THEN [err |-> NoErr, board |-> [b EXCEPT !.colours[offset] = value]]
             ELSE [err |-> IndexErr, board |-> b]

\* clear that resets the colours with the cells.
clear_colours_too(b) ==
    [b EXCEPT !.data = [i \in DOMAIN b.data |-> FALSE],
              !.colours = [i \in DOMAIN b.colours |-> 0]]

clear(b) == [b EXCEPT !.data = [i \in DOMAIN b.data |-> FALSE]]

\* draws[k] is the value of the k-th rng.gen_range(0..cols*rows).
RECURSIVE randomise_loop(_, _, _, _)
randomise_loop(b, count, draws, k) ==
    IF k >= count
    THEN [err |-> NoErr, board |-> b]
    ELSE IF draws[k] \in DOMAIN b.data
         THEN randomise_loop([b EXCEPT !.data[draws[k]] = TRUE], count, draws, k + 1)
         ELSE [err |-> IndexErr, board |-> b]

\* randomise with `0..=count`: one draw too many (it lands on offset 0).
randomise_inclusive(b, count, draws) ==
    LET r == randomise_loop(b, count, draws, 0)
    IN  [r EXCEPT !.board.data[0] = TRUE]

\* randomise that starts from a cleared board.
randomise_clearing(b, count, draws) == randomise_loop(clear(b), count, draws, 0)

randomise(b, count, draws) == randomise_loop(b, count, draws, 0)

\* ------------------------------------------------------- count_neighbours
\* usize subtraction: a - b panics (debug) or wraps (release) when a < b.
usize_sub(a, b) == IF a >= b THEN [err |-> NoErr, val |-> a - b]
                             ELSE [err |-> ArithErr, val |-> 0]

\* The cells (c, r) of the double loop, in its order: r outer, c inner.
RECURSIVE count_loop(_, _, _, _, _, _, _, _, _)
count_loop(b, col, row, min_col, max_col, max_row, r, c, count) ==
    IF r > max_row THEN [err |-> NoErr, val |-> count]
    ELSE IF c > max_col
         THEN count_loop(b, col, row, min_col, max_col, max_row, r + 1, min_col, count)
    ELSE IF (c = col) /\ (r = row)
         THEN count_loop(b, col, row, min_col, max_col, max_row, r, c + 1, count)
    ELSE LET g == get(b, c, r)
         IN  IF g.err # NoErr THEN [err |-> g.err, val |-> count]
             ELSE count_loop(b, col, row, min_col, max_col, max_row, r, c + 1,
                             IF g.val THEN count + 1 ELSE count)

\* count_neighbours with `col < board.cols` for `col < board.cols - 1`: the
\* block is not clamped at the right edge.
count_neighbours_unclamped(b, col, row) ==
    LET min_col == IF col > 0 THEN col - 1 ELSE 0
        min_row == IF row > 0 THEN row - 1 ELSE 0
        max_col == IF col < b.cols THEN col + 1 ELSE b.cols - 1
        max_row == IF row < b.rows - 1 THEN row + 1 ELSE b.rows - 1
    IN  count_loop(b, col, row, min_col, max_col, max_row, min_row, min_col, 0)

\* count_neighbours with `col - 1` and `row - 1` taken without the tests
\* `col > 0` and `row > 0`.
count_neighbours_unguarded(b, col, row) ==
    LET min_col == usize_sub(col, 1)
        min_row == usize_sub(row, 1)
        max_col == IF col < b.cols - 1 THEN col + 1 ELSE b.cols - 1
        max_row == IF row < b.rows - 1 THEN row + 1 ELSE b.rows - 1
    IN  IF min_col.err # NoErr \/ min_row.err # NoErr
        THEN [err |-> ArithErr, val |-> 0]
        ELSE count_loop(b, col, row, min_col.val, max_col, max_row,
                        min_row.val, min_col.val, 0)

count_neighbours(b, col, row) ==
    LET cols1 == usize_sub(b.cols, 1)
        rows1 == usize_sub(b.rows, 1)
        min_col == IF col > 0 THEN usize_sub(col, 1) ELSE [err |-> NoErr, val |-> 0]
        min_row == IF row > 0 THEN usize_sub(row, 1) ELSE [err |-> NoErr, val |-> 0]
    IN  IF \E x \in {cols1, rows1, min_col, min_row} : x.err # NoErr
        THEN [err |-> ArithErr, val |-> 0]
        ELSE LET max_col == IF col < cols1.val THEN col + 1 ELSE cols1.val
                 max_row == IF row < rows1.val THEN row + 1 ELSE rows1.val
             IN  count_loop(b, col, row, min_col.val, max_col, max_row,
                            min_row.val, min_col.val, 0)

\* -------------------------------------------------------- next_generation
\* next_cell with `c == 2 || c == 3` also in the non-occupied branch.
next_cell_birth_on_two(b, nb, col, row) ==
    LET sc == set_colour(nb, col, row, get_colour(b, col, row).val)
        c == count_neighbours(b, col, row)
    IN  IF c.val = 2 \/ c.val = 3
        THEN set(sc.board, col, row, TRUE)
        ELSE set(sc.board, col, row, FALSE)

\* next_cell with `count <= 3` for `count == 3` in the birth test.
next_cell_birth_up_to_three(b, nb, col, row) ==
    LET sc == set_colour(nb, col, row, get_colour(b, col, row).val)
        c == count_neighbours(b, col, row)
    IN  IF get(b, col, row).val
        THEN IF c.val = 2 \/ c.val = 3
             THEN set(sc.board, col, row, TRUE)
             ELSE set(sc.board, col, row, FALSE)
        ELSE IF c.val <= 3
             THEN set(sc.board, col, row, TRUE)
             ELSE [err |-> NoErr, board |-> sc.board]

\* next_cell with the set_colour call moved into the branches that write
\* a live cell: a cell left dead keeps the intensity Board::new drew.
next_cell_copy_when_alive(b, nb, col, row) ==
    LET c == count_neighbours(b, col, row)
        alive == IF get(b, col, row).val THEN c.val = 2 \/ c.val = 3
                                          ELSE c.val = 3
    IN  IF alive
        THEN set(set_colour(nb, col, row, get_colour(b, col, row).val).board,
                 col, row, TRUE)
        ELSE [err |-> NoErr, board |-> nb]

\* The body of the double loop for one (col, row): b is the board read,
\* nb the new_board written.
next_cell(b, nb, col, row) ==
    LET gc == get_colour(b, col, row)
    IN  IF gc.err # NoErr THEN [err |-> gc.err, board |-> nb] ELSE
    LET sc == set_colour(nb, col, row, gc.val)
    IN  IF sc.err # NoErr THEN sc ELSE
    LET c == count_neighbours(b, col, row)
    IN  IF c.err # NoErr THEN [err |-> c.err, board |-> sc.board] ELSE
    LET g == get(b, col, row)
    IN  IF g.err # NoErr THEN [err |-> g.err, board |-> sc.board] ELSE
        IF g.val
        THEN IF c.val = 2 \/ c.val = 3
             THEN set(sc.board, col, row, TRUE)
             ELSE set(sc.board, col, row, FALSE)
        ELSE IF c.val = 3
             THEN set(sc.board, col, row, TRUE)
             ELSE [err |-> NoErr, board |-> sc.board]

\* generation_loop without the set_colour call: new_board keeps the
\* intensities Board::new drew.
RECURSIVE generation_loop_no_copy(_, _, _, _)
generation_loop_no_copy(b, nb, row, col) ==
    IF row >= b.rows THEN [err |-> NoErr, board |-> nb]
    ELSE IF col >= b.cols THEN generation_loop_no_copy(b, nb, row + 1, 0)
    ELSE LET step == next_cell(b, nb, col, row)
         IN  generation_loop_no_copy(
                 b, [step.board EXCEPT !.colours = nb.colours], row, col + 1)

\* generation_loop on a single grid: each cell is written into the board
\* that the later cells are read from.
RECURSIVE generation_loop_in_place(_, _, _, _)
generation_loop_in_place(b, nb, row, col) ==
    IF row >= b.rows THEN [err |-> NoErr, board |-> b]
    ELSE IF col >= b.cols THEN generation_loop_in_place(b, nb, row + 1, 0)
    ELSE generation_loop_in_place(next_cell(b, b, col, row).board, nb, row, col + 1)

\* for row in 0..rows { for col in 0..cols { ... } }; a panic leaves *board
\* as it was, *board = new_board happens after the loop.
RECURSIVE generation_loop(_, _, _, _)
generation_loop(b, nb, row, col) ==
    IF row >= b.rows THEN [err |-> NoErr, board |-> nb]
    ELSE IF col >= b.cols THEN generation_loop(b, nb, row + 1, 0)
    ELSE LET step == next_cell(b, nb, col, row)
         IN  IF step.err # NoErr THEN [err |-> step.err, board |-> b]
             ELSE generation_loop(b, step.board, row, col + 1)

next_generation(b, seed) ==
    generation_loop(b, new(b.cols, b.rows, seed), 0, 0)

\* ------------------------------------------------------------------ state
VARIABLES
    board,     \* the live Board
    panic,     \* NoErr, or the panic that ended the program
    op,        \* the name of the call that produced this state
    shape,     \* main's cols and rows, the arguments of Board::new
    built      \* the Board as Board::new returned it

vars == <<board, panic, op, shape, built>>

Shapes(cells) == {s \in (1 .. cells) \X (1 .. cells) : s[1] * s[2] <= cells}

\* Arguments of the accessors: every cell and the two lines past each edge.
ColArgs(b) == 0 .. (b.cols + 1)
RowArgs(b) == 0 .. (b.rows + 1)
\* set_colour calls: the last cell and one cell past each edge; 64 is a
\* value of test_colours that Board::new never draws.
ColourArgs(b) ==
    {<<b.cols - 1, b.rows - 1, 64>>, <<b.cols, 0, 64>>, <<0, b.rows, 64>>}

Finish(r, name) ==
    /\ board' = r.board
    /\ panic' = r.err
    /\ op' = name
    /\ UNCHANGED <<shape, built>>

\* let mut board = Board::new(cols, rows);
Init ==
    \E s \in Shapes(MaxCells), seed \in RngSeeds :
        /\ shape = s
        /\ built = new(s[1], s[2], seed)
        /\ board = built
        /\ panic = NoErr
        /\ op = "new"

Set(col, row, value) ==
    /\ panic = NoErr
    /\ Finish(set(board, col, row, value), "set")

SetColour(col, row, value) ==
    /\ panic = NoErr
    /\ Finish(set_colour(board, col, row, value), "set_colour")

Clear ==
    /\ panic = NoErr
    /\ Finish([err |-> NoErr, board |-> clear(board)], "clear")

Randomise(count, draws) ==
    /\ panic = NoErr
    /\ Finish(randomise(board, count, draws), "randomise")

NextGeneration(seed) ==
    /\ panic = NoErr
    /\ Finish(next_generation(board, seed), "next_generation")

DoSet == \E col \in ColArgs(board), row \in RowArgs(board), value \in BOOLEAN :
             Set(col, row, value)

DoSetColour == \E a \in ColourArgs(board) : SetColour(a[1], a[2], a[3])

DoRandomise == \E count \in 0 .. MaxCount :
                   \E draws \in [Offsets(count) -> Offsets(board.cols * board.rows)] :
                       Randomise(count, draws)

DoNextGeneration == \E seed \in RngSeeds : NextGeneration(seed)

Next ==
    \/ DoSet
    \/ DoSetColour
    \/ Clear
    \/ DoRandomise
    \/ DoNextGeneration

Spec == Init /\ [][Next]_vars

\* One generation computed on every board of up to GenCells cells: a board
\* as new and a series of set calls leave it.
GenInit ==
    \E s \in Shapes(GenCells), seed \in RngSeeds :
        \E cells \in [Offsets(s[1] * s[2]) -> BOOLEAN] :
            /\ shape = s
            /\ built = new(s[1], s[2], seed)
            /\ board = [built EXCEPT !.data = cells]
            /\ panic = NoErr
            /\ op = "set"

GenNext == DoNextGeneration

GenSpec == GenInit /\ [][GenNext]_vars

\* The calls main makes on its board, and set: no set_colour.
DriverNext ==
    \/ DoSet
    \/ Clear
    \/ DoRandomise
    \/ DoNextGeneration

DriverSpec == Init /\ [][DriverNext]_vars

\* ================================================================ claims
\* What the claims speak of, said without the code's loops.
Cells(b) == (0 .. (b.cols - 1)) \X (0 .. (b.rows - 1))
Alive(b, p) == b.data[p[2] * b.cols + p[1]]
Intensity(b, p) == b.colours[p[2] * b.cols + p[1]]
Live(b) == Cardinality({i \in DOMAIN b.data : b.data[i]})
Dist(x, y) == IF x >= y THEN x - y ELSE y - x
\* The live cells of the Moore neighbourhood of p that lie on the grid.
Moore(b, p) ==
    {q \in Cells(b) : /\ Dist(q[1], p[1]) <= 1
                      /\ Dist(q[2], p[2]) <= 1
                      /\ q # p
                      /\ Alive(b, q)}
IsCorner(b, p) == p[1] \in {0, b.cols - 1} /\ p[2] \in {0, b.rows - 1}

\* C1: after one next_generation a cell is alive iff it was alive with
\* exactly 2 or 3 live neighbours in the old board, or dead with exactly 3;
\* in every other case it is dead.
C1_GenerationRule ==
    [][op' = "next_generation" =>
         /\ panic' = NoErr
         /\ \A p \in Cells(board) :
                Alive(board', p) <=>
                    IF Alive(board, p)
                    THEN Cardinality(Moore(board, p)) \in {2, 3}
                    ELSE Cardinality(Moore(board, p)) = 3]_vars

\* A generation was computed on a 3 x 3 board or larger and left live and
\* dead cells, the centre (1, 1) alive with two or three live neighbours.
C1_Witness ==
    /\ op = "next_generation"
    /\ board.cols >= 3 /\ board.rows >= 3
    /\ Alive(board, <<1, 1>>)
    /\ Cardinality(Moore(board, <<1, 1>>)) \in {2, 3}
    /\ \E p \in Cells(board) : ~Alive(board, p)

\* C2: count_neighbours(board, col, row) at an in-bounds cell is the number
\* of live cells of the Moore neighbourhood that lie on the grid: the centre
\* is not counted, nothing wraps, the result is at most 8 and, at a corner,
\* at most 3.
C2_CountNeighbours ==
    \A p \in Cells(board) :
        LET n == count_neighbours(board, p[1], p[2])
        IN  /\ n.err = NoErr
            /\ n.val = Cardinality(Moore(board, p))
            /\ n.val <= 8
            /\ IsCorner(board, p) => n.val <= 3

\* A board whose centre (1, 1) has 8 live neighbours and whose corner
\* (0, 0) has 3.
C2_Witness ==
    /\ board.cols >= 3 /\ board.rows >= 3
    /\ Alive(board, <<1, 1>>)
    /\ count_neighbours(board, 1, 1).val = 8
    /\ count_neighbours(board, 0, 0).val = 3

\* C3: get, set, get_colour and set_colour panic with "Out of bounds" for
\* every (col, row) with col >= cols or row >= rows and for no (col, row)
\* inside the grid.
C3_OutOfBounds ==
    \A col \in ColArgs(board), row \in RowArgs(board) :
        LET outside == col >= board.cols \/ row >= board.rows
        IN  /\ (get(board, col, row).err = OutOfBounds) <=> outside
            /\ (get_colour(board, col, row).err = OutOfBounds) <=> outside
            /\ \A value \in BOOLEAN :
                   (set(board, col, row, value).err = OutOfBounds) <=> outside
            /\ \A value \in {0, 64, 128, 255} :
                   (set_colour(board, col, row, value).err = OutOfBounds) <=> outside

\* A set call one past an edge has ended the program with "Out of bounds".
C3_Witness ==
    /\ op = "set"
    /\ panic = OutOfBounds
    /\ get(board, board.cols, 0).err = OutOfBounds
    /\ get(board, board.cols - 1, board.rows - 1).err = NoErr

\* C4: for every in-bounds (col, row) and every value v, set(col, row, v)
\* followed immediately by get(col, row) returns v, and set_colour(col, row,
\* v) followed immediately by get_colour(col, row) returns v.
C4_RoundTrip ==
    \A p \in Cells(board) :
        /\ \A v \in BOOLEAN :
               LET s == set(board, p[1], p[2], v)
                   g == get(s.board, p[1], p[2])
               IN  s.err = NoErr /\ g.err = NoErr /\ g.val = v
        /\ \A v \in {0, 64, 128, 255} :
               LET s == set_colour(board, p[1], p[2], v)
                   g == get_colour(s.board, p[1], p[2])
               IN  s.err = NoErr /\ g.err = NoErr /\ g.val = v

\* set_colour(cols-1, rows-1, 64) has just run on a board that is not
\* square, a set call before it left a live cell; both read back.
C4_Witness ==
    /\ op = "set_colour"
    /\ panic = NoErr
    /\ board.cols > board.rows /\ board.rows > 1
    /\ get_colour(board, board.cols - 1, board.rows - 1).val = 64
    /\ get(board, board.cols - 1, 0).val = TRUE

\* C5: the intensity of every cell after next_generation is its intensity
\* before the call, whatever its alive state was and is; the intensities
\* drawn for the new board do not survive.
C5_IntensityCarried ==
    [][op' = "next_generation" =>
         /\ panic' = NoErr
         /\ \A p \in Cells(board) :
                /\ get_colour(board', p[1], p[2]).err = NoErr
                /\ get_colour(board', p[1], p[2]).val = Intensity(board, p)]_vars

\* After a generation the last cell is dead and carries 64, a value that
\* set_colour wrote and Board::new never draws; other cells are alive.
C5_Witness ==
    /\ op = "next_generation"
    /\ panic = NoErr
    /\ Live(board) > 0
    /\ ~Alive(board, <<board.cols - 1, board.rows - 1>>)
    /\ Intensity(board, <<board.cols - 1, board.rows - 1>>) = 64

\* C6: on a board with cols >= 1 and rows >= 1, new, randomise, clear,
\* next_generation and count_neighbours at in-bounds coordinates never
\* panic: no access is out of bounds, no index leaves its Vec and no
\* subtraction goes below zero.
C6_NoFailure ==
    /\ board.cols >= 1 /\ board.rows >= 1
    /\ op \in {"new", "randomise", "clear", "next_generation"} => panic = NoErr
    /\ \A p \in Cells(board) : count_neighbours(board, p[1], p[2]).err = NoErr

\* next_generation has run on a 1 x N board with N > 1 and live cells.
C6_Witness ==
    /\ op = "next_generation"
    /\ panic = NoErr
    /\ board.cols = 1 /\ board.rows > 1
    /\ Live(board) > 0

\* The sequences of offsets that count draws of gen_range(0..cols*rows)
\* can give, the offsets drawn, and whether two draws hit the same offset.
Draws(b, count) == [Offsets(count) -> Offsets(b.cols * b.rows)]
Drawn(draws) == {draws[k] : k \in DOMAIN draws}
Collides(draws) == \E j, k \in DOMAIN draws : j # k /\ draws[j] = draws[k]

\* C7 as stated: after any call randomise(count) the number of live cells
\* is at most count.
C7_AtMostCount ==
    panic = NoErr =>
        \A count \in 0 .. MaxCount : \A draws \in Draws(board, count) :
            Live(randomise(board, count, draws).board) <= count

\* C7, amended: after randomise(count) the number of live cells is at most
\* count more than before the call; on a board without live cells (both
\* call sites of main: after Board::new, after clear) it is at most count,
\* and strictly less whenever two draws hit the same offset.
C7_AtMostCountMore ==
    panic = NoErr =>
        \A count \in 0 .. MaxCount : \A draws \in Draws(board, count) :
            LET after == randomise(board, count, draws).board
            IN  /\ Live(after) <= Live(board) + count
                /\ Live(board) = 0 =>
                       /\ Live(after) <= count
                       /\ Collides(draws) => Live(after) < count

\* randomise has run and more cells are alive than one call draws: cells
\* were alive before the call.
C7_Witness ==
    /\ op = "randomise"
    /\ panic = NoErr
    /\ Live(board) > MaxCount

\* C8: randomise(count) makes exactly count draws, each setting the cell at
\* an offset in [0, cols*rows) alive: the cells alive before stay alive, at
\* most count cells go from dead to alive, none from alive to dead, and no
\* intensity changes.
C8_Randomise ==
    panic = NoErr =>
        \A count \in 0 .. MaxCount : \A draws \in Draws(board, count) :
            LET r == randomise(board, count, draws)
                after == r.board
            IN  /\ r.err = NoErr
                /\ after.cols = board.cols /\ after.rows = board.rows
                /\ after.data = [i \in DOMAIN board.data |->
                                     board.data[i] \/ i \in Drawn(draws)]
                /\ \A i \in DOMAIN board.data : board.data[i] => after.data[i]
                /\ Cardinality({i \in DOMAIN board.data :
                                    ~board.data[i] /\ after.data[i]}) <= count
                /\ after.colours = board.colours

\* randomise has run on a board that had live cells and a written
\* intensity: every cell is alive, more than one call draws.
C8_Witness ==
    /\ op = "randomise"
    /\ panic = NoErr
    /\ Live(board) = board.cols * board.rows
    /\ board.cols > 1 /\ board.rows > 1
    /\ Intensity(board, <<board.cols - 1, board.rows - 1>>) = 64

\* C9: right after new(cols, rows) every cell is dead and every intensity
\* is in 128 .. 255.
C9_New ==
    op = "new" =>
        /\ panic = NoErr
        /\ \A p \in Cells(board) :
               /\ get(board, p[1], p[2]).val = FALSE
               /\ get_colour(board, p[1], p[2]).val \in 128 .. 255

\* A fresh 2 x 3 board whose first intensity is 255, the top of the range.
C9_Witness ==
    /\ op = "new"
    /\ board.cols = 2 /\ board.rows = 3
    /\ get_colour(board, 0, 0).val = 255
    /\ get_colour(board, 1, 2).err = NoErr

\* C10: after clear() every cell is dead and every intensity is what it was
\* before the call.
C10_Clear ==
    [][op' = "clear" =>
         /\ panic' = NoErr
         /\ \A p \in Cells(board) :
                /\ get(board', p[1], p[2]).val = FALSE
                /\ get_colour(board', p[1], p[2]).val = Intensity(board, p)]_vars

\* clear() has run on a board whose last cell carries a written 64.
C10_Witness ==
    /\ op = "clear"
    /\ Live(board) = 0
    /\ board.cols > 1 /\ board.rows > 1
    /\ Intensity(board, <<board.cols - 1, board.rows - 1>>) = 64

\* C11: in every state reachable from new(cols, rows) by set, set_colour,
\* clear, randomise and next_generation, the board's cols and rows are the
\* values given at construction and data and colours have exactly
\* cols*rows elements each; so the board that next_generation swaps in has
\* the dimensions of the one it replaces.
C11_Dimensions ==
    /\ board.cols = shape[1]
    /\ board.rows = shape[2]
    /\ DOMAIN board.data = Offsets(shape[1] * shape[2])
    /\ DOMAIN board.colours = Offsets(shape[1] * shape[2])

\* next_generation has swapped in a board of 3 columns and 2 rows, with
\* live cells, for the one constructed with those dimensions.
C11_Witness ==
    /\ op = "next_generation"
    /\ panic = NoErr
    /\ shape = <<3, 2>>
    /\ board.cols = 3 /\ board.rows = 2
    /\ Live(board) > 0

\* C12: a single-cell write touches only its target.  set(col, row, v)
\* leaves the alive state of every other cell and the intensity of every
\* cell as they were; set_colour(col, row, v) leaves the intensity of every
\* other cell and the alive state of every cell as they were.  Read back
\* through get and get_colour, which also shows that no two cells of the
\* grid share an offset.
C12_SingleCellWrite ==
    \A p \in Cells(board) :
        /\ \A v \in BOOLEAN :
               LET after == set(board, p[1], p[2], v).board
               IN  /\ after.cols = board.cols /\ after.rows = board.rows
                   /\ after.colours = board.colours
                   /\ \A q \in Cells(board) :
                          /\ q # p => get(after, q[1], q[2]).val
                                          = get(board, q[1], q[2]).val
                          /\ get_colour(after, q[1], q[2]).val
                                 = get_colour(board, q[1], q[2]).val
        /\ \A v \in {0, 64, 128, 255} :
               LET after == set_colour(board, p[1], p[2], v).board
               IN  /\ after.cols = board.cols /\ after.rows = board.rows
                   /\ after.data = board.data
                   /\ \A q \in Cells(board) :
                          /\ q # p => get_colour(after, q[1], q[2]).val
                                          = get_colour(board, q[1], q[2]).val
                          /\ get(after, q[1], q[2]).val
                                 = get(board, q[1], q[2]).val

\* set has just left exactly one live cell, the last one, on a 3 x 2 board
\* whose last cell carries a written 64 and whose first cell still has the
\* intensity it was constructed with.
C12_Witness ==
    /\ op = "set"
    /\ panic = NoErr
    /\ shape = <<3, 2>>
    /\ Live(board) = 1
    /\ get(board, 2, 1).val = TRUE
    /\ get_colour(board, 2, 1).val = 64
    /\ get_colour(board, 0, 0).val = get_colour(built, 0, 0).val

\* The loop body of next_generation applied to the cells in another order.
RECURSIVE generation_in_order(_, _, _)
generation_in_order(b, nb, order) ==
    IF order = <<>> THEN nb
    ELSE generation_in_order(
             b, next_cell(b, nb, Head(order)[1], Head(order)[2]).board, Tail(order))

\* The cells row by row from the last to the first, and column by column.
ReverseOrder(b) ==
    [k \in 1 .. (b.cols * b.rows) |->
        <<(b.cols * b.rows - k) % b.cols, (b.cols * b.rows - k) \div b.cols>>]
ColumnOrder(b) ==
    [k \in 1 .. (b.cols * b.rows) |-> <<(k - 1) \div b.rows, (k - 1) % b.rows>>]

\* C13: within one next_generation the neighbour counts and alive states
\* are read from the old generation until every cell is computed; a write
\* for an earlier cell does not change what a later cell sees, so the new
\* board is the same in whatever order the cells are processed.  Every
\* intensity Board::new drew is overwritten by the copy, so the new board
\* does not depend on the stream the fresh board was filled from either.
C13_OrderIndependent ==
    LET r == next_generation(board, 0)
    IN  /\ r.err = NoErr
        /\ generation_in_order(board, new(board.cols, board.rows, 0),
                               ReverseOrder(board)) = r.board
        /\ generation_in_order(board, new(board.cols, board.rows, 1),
                               ColumnOrder(board)) = r.board

\* A generation on a 3 x 3 board has written the neighbouring cells (0, 0)
\* and (1, 0) alive and (1, 1) dead.
C13_Witness ==
    /\ op = "next_generation"
    /\ panic = NoErr
    /\ shape = <<3, 3>>
    /\ Alive(board, <<0, 0>>)
    /\ Alive(board, <<1, 0>>)
    /\ ~Alive(board, <<1, 1>>)

\* The same cells with another intensity in every cell.
Recoloured(b) ==
    [b EXCEPT !.colours = [i \in DOMAIN b.colours |-> 255 - b.colours[i]]]

\* C14: the alive/dead grid after one next_generation is a function of the
\* alive/dead grid before it: a board with the same dimensions and the
\* same cells but other intensities, stepped with any values drawn by
\* Board::new, ends with the same cells as the step the program took.
C14_Deterministic ==
    [][(op' = "next_generation" /\ panic' = NoErr) =>
          \A seed \in RngSeeds :
              LET twin == next_generation(Recoloured(board), seed)
              IN  /\ twin.err = NoErr
                  /\ twin.board.data = board'.data]_vars

\* A generation on a 3 x 3 board has left cells alive and cells dead.
C14_Witness ==
    /\ op = "next_generation"
    /\ panic = NoErr
    /\ shape = <<3, 3>>
    /\ Live(board) > 0
    /\ Live(board) < 9
    /\ Recoloured(board).colours # board.colours

\* C15: as long as set_colour is not called, after any sequence of set,
\* clear, randomise and next_generation every cell has the intensity
\* Board::new gave it, a value of 128..=255.
C15_IntensityKept ==
    /\ board.colours = built.colours
    /\ \A p \in Cells(board) :
           /\ get_colour(board, p[1], p[2]).val = Intensity(built, p)
           /\ get_colour(board, p[1], p[2]).val \in ColourLo .. ColourHi

\* A generation has left live and dead cells on a 3 x 2 board.
C15_Witness ==
    /\ op = "next_generation"
    /\ panic = NoErr
    /\ shape = <<3, 2>>
    /\ Live(board) > 0
    /\ Live(board) < 6
    /\ Intensity(board, <<2, 1>>) = Intensity(built, <<2, 1>>)

\* C16: next_generation on a board with every cell dead, as new and clear
\* leave it, ends without a panic on a board with every cell dead; so does
\* every further next_generation.
C16_DeadStaysDead ==
    [][(op' = "next_generation" /\ Live(board) = 0) =>
          /\ panic' = NoErr
          /\ \A p \in Cells(board') : get(board', p[1], p[2]).val = FALSE]_vars

\* A generation has ended on a 3 x 2 board with every cell dead.
C16_Witness ==
    /\ op = "next_generation"
    /\ panic = NoErr
    /\ shape = <<3, 2>>
    /\ \A p \in Cells(board) : ~Alive(board, p)

====
